---- MODULE Spec2Model ----
(***************************************************************************)
(* urlgrabber (main.go): a Coordinator walks the input paths and launches  *)
(* one extractURLs goroutine per non-directory entry; every Extractor      *)
(* splits its file into candidates, validates each with isValidURL under   *)
(* the workerPool semaphore and sends accepted ones on the unbuffered      *)
(* urlChan; a closer goroutine closes urlChan after wg.Wait, and main      *)
(* prints what it receives until the channel is closed.                    *)
(*                                                                         *)
(* Strings are sequences of one-character strings, so that Split,          *)
(* TrimSpace, the line scanner and HasPrefix are computed, not assumed.    *)
(***************************************************************************)
EXTENDS Bags, FiniteSets, Integers, Sequences, TLC

VARIABLES
    \* ---- the file system and the Coordinator (main) ----
    kind,           \* kind[e]: what Lstat/ReadDir find at entry e
    mainPc,         \* "walk" | "range" | "done"
    argIdx,         \* index into flag.Args() of the path being walked
    walkPos,        \* next callback of the current filepath.Walk
    walkErrs,       \* input paths whose walk returned an error (reported)
    wg,             \* sync.WaitGroup counter
    closerPc,       \* "none" | "wait" | "close" | "done"
    urlChanClosed,  \* urlChan has been closed
    closes,         \* number of close(urlChan) executed
    workerPool,     \* number of tokens in the workerPool channel buffer
    \* ---- one Extractor per entry ----
    pc,             \* pc[e]: position of extractURLs(e)
    content,        \* content[e]: bytes of the file, known once stat'ed
    lineNo,         \* number of lines scanner.Scan has delivered
    parts,          \* the pieces strings.Split returned, being ranged over
    partNo,         \* index of the current piece in parts
    tokens,         \* tokens[e]: sends on workerPool minus receives, by e
    fileOpen,       \* the handle returned by os.Open is open
    ioErr,          \* which I/O call failed for e, "none" if none
    printed,        \* printed[e]: URLs main printed that e sent
    launches,       \* launches[e]: number of go extractURLs(e) executed
    opens,          \* opens[e]: number of times the file e was opened
    acquires,       \* acquires[e]: number of sends on workerPool by e
    \* ---- pure-function harnesses ----
    xContent,       \* a file content given to both read paths
    xSmall,         \* what the small-file path emits for xContent
    xLarge,         \* what the large-file path emits for xContent
    probe,          \* a response of client.Head
    verdict         \* what isValidURL returns for probe

pipeVars == <<kind, mainPc, argIdx, walkPos, walkErrs, wg, closerPc,
              urlChanClosed, closes, workerPool, pc, content, lineNo, parts,
              partNo, tokens, fileOpen, ioErr, printed, launches, opens,
              acquires>>
extractVars == <<xContent, xSmall, xLarge>>
validatorVars == <<probe, verdict>>
vars == <<pipeVars, extractVars, validatorVars>>

-----------------------------------------------------------------------------
\* Bounds and scaled program constants

\* capacity of workerPool (100 in main.go, scaled)
WorkerPoolCap == 2
\* size threshold of the in-memory path (1 GiB in main.go, scaled to bytes
\* of the modelled contents)
maxMemoryFileSize == 4
\* longest content given to the pure read-path harness
MaxLen == 3

None == "none"
\* a result not computed yet; a computed result r is held as <<r>>
NotRun == <<>>

-----------------------------------------------------------------------------
\* Strings

Space == {" ", "\n", "\r", "\t"}
UrlChars == {"o", "u", "i", "s"}
Chars == UrlChars \cup {",", " ", "\n", "\r"}

RECURSIVE StringsUpTo(_)
StringsUpTo(n) ==
    IF n = 0 THEN {<<>>}
    ELSE LET shorter == StringsUpTo(n - 1)
         IN  shorter \cup {Append(s, c) : s \in {z \in shorter : Len(z) = n - 1}, c \in Chars}

\* strings.HasPrefix
HasPrefix(s, prefix) ==
    /\ Len(s) >= Len(prefix)
    /\ \A i \in 1..Len(prefix) : s[i] = prefix[i]

\* strings.TrimSpace: the content between the first and the last character
\* that is not white space
TrimSpace(s) ==
    LET keep == {i \in 1..Len(s) : s[i] \notin Space}
    IN  IF keep = {} THEN <<>>
        ELSE SubSeq(s, CHOOSE i \in keep : \A j \in keep : i <= j,
                       CHOOSE i \in keep : \A j \in keep : j <= i)

\* the pieces of s between the occurrences of sep: one more piece than
\* there are separators, empty pieces included
Fields(s, sep) ==
    LET at == {i \in 1..Len(s) : s[i] = sep}
        \* position of the k-th separator; 0 and Len(s) + 1 at the ends
        Pos(k) == IF k = 0 THEN 0
                  ELSE IF k > Cardinality(at) THEN Len(s) + 1
                  ELSE CHOOSE i \in at : Cardinality({j \in at : j < i}) = k - 1
    IN  [k \in 1..(Cardinality(at) + 1) |-> SubSeq(s, Pos(k - 1) + 1, Pos(k) - 1)]

\* strings.Split(s, ","): always at least one piece, "" gives [""]
Split(s) == Fields(s, ",")

\* bufio.ScanLines: dropCR
DropCR(s) == IF s # <<>> /\ s[Len(s)] = "\r" THEN SubSeq(s, 1, Len(s) - 1) ELSE s

\* the lines bufio.Scanner delivers for a whole input: split at "\n", one
\* trailing "\r" dropped per line, a final unterminated line delivered
\* only if it is non-empty
ScanLines(s) ==
    LET raw == Fields(s, "\n")
        kept == IF raw[Len(raw)] = <<>> THEN SubSeq(raw, 1, Len(raw) - 1) ELSE raw
    IN  [k \in 1..Len(kept) |-> DropCR(kept[k])]

RECURSIVE Flatten(_)
Flatten(ss) == IF ss = <<>> THEN <<>> ELSE Head(ss) \o Flatten(Tail(ss))

SeqMap(Op(_), s) == [i \in 1..Len(s) |-> Op(s[i])]
Range(s) == {s[i] : i \in 1..Len(s)}

-----------------------------------------------------------------------------
\* Validator

ImagePrefix == <<"i", "m", "a", "g", "e", "/">>
TextHtml == <<"t", "e", "x", "t", "/", "h", "t", "m", "l">>
ImagePng == <<"i", "m", "a", "g", "e", "/", "p", "n", "g">>

Response(e, ct, sc) == [err |-> e, contentType |-> ct, statusCode |-> sc]

\* client.Head(url): the modelled network. "o" answers 200 text/html, "u"
\* answers 301, "i" answers 200 image/png, "s" answers 404; every other
\* string (empty, with white space or control characters inside, unknown
\* host) is a transport error.
ClientHead(url) ==
    IF url = <<"o">> THEN Response(FALSE, TextHtml, 200)
    ELSE IF url = <<"u">> THEN Response(FALSE, TextHtml, 301)
    ELSE IF url = <<"i">> THEN Response(FALSE, ImagePng, 200)
    ELSE IF url = <<"s">> THEN Response(FALSE, TextHtml, 404)
    ELSE Response(TRUE, <<>>, 0)

\* isValidURL after client.Head returned resp
VerdictNoImageCheck(resp) ==
    IF resp.err THEN FALSE
    ELSE resp.statusCode >= 200 /\ resp.statusCode < 400

Verdict(resp) ==
    IF resp.err THEN FALSE
    ELSE IF HasPrefix(resp.contentType, ImagePrefix) THEN FALSE
    ELSE resp.statusCode >= 200 /\ resp.statusCode < 400

isValidURL(url) == Verdict(ClientHead(url))

-----------------------------------------------------------------------------
\* The two read paths of extractURLs as functions of the content

\* small-file path
SmallCandidates(c) == SeqMap(TrimSpace, Split(c))
\* large-file path
LineCandidates(line) == SeqMap(TrimSpace, Split(line))
LargeCandidates(c) == Flatten(SeqMap(LineCandidates, ScanLines(c)))

EmitSmall(c) == SelectSeq(SmallCandidates(c), isValidURL)
EmitLarge(c) == SelectSeq(LargeCandidates(c), isValidURL)

-----------------------------------------------------------------------------
\* Values the pipeline variables keep while a pure-function harness runs

Args == <<"A", "B">>
Entries == {"A", "Ax", "Ay", "B"}
\* ReadDir of a directory, in lexical order
Children(e) == IF e = "A" THEN <<"Ax", "Ay">> ELSE <<>>

PipeIdle ==
    /\ kind = [e \in Entries |-> "dir"]
    /\ mainPc = "done"
    /\ argIdx = 1
    /\ walkPos = 1
    /\ walkErrs = {}
    /\ wg = 0
    /\ closerPc = None
    /\ urlChanClosed = FALSE
    /\ closes = 0
    /\ workerPool = 0
    /\ pc = [e \in Entries |-> "idle"]
    /\ content = [e \in Entries |-> <<>>]
    /\ lineNo = [e \in Entries |-> 0]
    /\ parts = [e \in Entries |-> <<>>]
    /\ partNo = [e \in Entries |-> 0]
    /\ tokens = [e \in Entries |-> 0]
    /\ fileOpen = [e \in Entries |-> FALSE]
    /\ ioErr = [e \in Entries |-> None]
    /\ printed = [e \in Entries |-> <<>>]
    /\ launches = [e \in Entries |-> 0]
    /\ opens = [e \in Entries |-> 0]
    /\ acquires = [e \in Entries |-> 0]

ExtractIdle == xContent = <<>> /\ xSmall = NotRun /\ xLarge = NotRun
ValidatorIdle == probe = Response(TRUE, <<>>, 0) /\ verdict = NotRun

-----------------------------------------------------------------------------
\* Harness of isValidURL: the response of client.Head is the input

ContentTypes ==
    { <<>>, TextHtml, ImagePng, ImagePrefix,
      <<"i", "m", "a", "g", "e">>,
      <<"x", "i", "m", "a", "g", "e", "/">> }
StatusCodes == {100, 199, 200, 204, 301, 399, 400, 404, 500}
Responses ==
    {Response(e, ct, sc) : e \in BOOLEAN, ct \in ContentTypes, sc \in StatusCodes}

ValidatorInit ==
    /\ PipeIdle
    /\ ExtractIdle
    /\ probe \in Responses
    /\ verdict = NotRun

Validate ==
    /\ verdict = NotRun
    /\ verdict' = <<Verdict(probe)>>
    /\ UNCHANGED <<probe, pipeVars, extractVars>>

ValidatorNext == Validate
ValidatorSpec == ValidatorInit /\ [][ValidatorNext]_vars

-----------------------------------------------------------------------------
\* Harness of the two read paths: one content, both paths

\* "http://ok,http://image,http://error,http://bad-status" with one
\* character per URL (the third piece trims to the empty string, which is
\* a transport error)
ExampleContent == <<"o", ",", "i", ",", "\t", ",", "s">>
\* "  http://ok  "
PaddedContent == <<" ", " ", "o", " ", " ">>

ExtractInit ==
    /\ PipeIdle
    /\ ValidatorIdle
    /\ xContent \in StringsUpTo(MaxLen) \cup {ExampleContent, PaddedContent}
    /\ xSmall = NotRun
    /\ xLarge = NotRun

RunSmall ==
    /\ xSmall = NotRun
    /\ xSmall' = <<EmitSmall(xContent)>>
    /\ UNCHANGED <<xContent, xLarge, pipeVars, validatorVars>>

RunLarge ==
    /\ xLarge = NotRun
    /\ xLarge' = <<EmitLarge(xContent)>>
    /\ UNCHANGED <<xContent, xSmall, pipeVars, validatorVars>>

ExtractNext == RunSmall \/ RunLarge
ExtractSpec == ExtractInit /\ [][ExtractNext]_vars

-----------------------------------------------------------------------------
\* The pipeline: main, the closer goroutine and one extractURLs per file

Kinds == {"file", "dir", "bad"}

\* contents a file may turn out to have: zero bytes, two pieces of which
\* one is rejected, two different accepted pieces, a padded URL (all below
\* the threshold), and two lines with a repeated URL
FileContents ==
    { <<>>,
      <<"o", ",", "i">>,
      <<"u", ",", "o">>,
      <<" ", "o", " ">>,
      <<"o", ",", "o", "\n", "s">> }

\* filepath.Walk(root, fn) with the callback of main: the entries the
\* callback is called for, in order, up to and including the first entry
\* reported with an error (the callback returns that error, which ends
\* the walk), and whether the walk returned an error
RECURSIVE WalkNode(_), WalkChildren(_, _)
WalkNode(e) ==
    IF kind[e] = "bad" THEN [calls |-> <<e>>, err |-> TRUE]
    ELSE IF kind[e] = "file" THEN [calls |-> <<e>>, err |-> FALSE]
    ELSE WalkChildren(Children(e), [calls |-> <<e>>, err |-> FALSE])
WalkChildren(names, acc) ==
    IF names = <<>> \/ acc.err THEN acc
    ELSE LET r == WalkNode(Head(names))
         IN  WalkChildren(Tail(names), [calls |-> acc.calls \o r.calls, err |-> r.err])

CurWalk == WalkNode(Args[argIdx])
Walking == mainPc = "walk" /\ argIdx <= Len(Args)

Init ==
    /\ ExtractIdle
    /\ ValidatorIdle
    /\ kind \in [Entries -> Kinds]
    /\ kind["A"] # "file"
    /\ mainPc = "walk"
    /\ argIdx = 1
    /\ walkPos = 1
    /\ walkErrs = {}
    /\ wg = 0
    /\ closerPc = None
    /\ urlChanClosed = FALSE
    /\ closes = 0
    /\ workerPool = 0
    /\ pc = [e \in Entries |-> "idle"]
    /\ content = [e \in Entries |-> <<>>]
    /\ lineNo = [e \in Entries |-> 0]
    /\ parts = [e \in Entries |-> <<>>]
    /\ partNo = [e \in Entries |-> 0]
    /\ tokens = [e \in Entries |-> 0]
    /\ fileOpen = [e \in Entries |-> FALSE]
    /\ ioErr = [e \in Entries |-> None]
    /\ printed = [e \in Entries |-> <<>>]
    /\ launches = [e \in Entries |-> 0]
    /\ opens = [e \in Entries |-> 0]
    /\ acquires = [e \in Entries |-> 0]

countVars == <<launches, opens, acquires>>
taskVars == <<pc, content, lineNo, parts, partNo, tokens, fileOpen, ioErr, countVars>>
harnessVars == <<extractVars, validatorVars>>

\* ---- main: the traversal -------------------------------------------------

WalkFnErrAbortAll ==
    /\ Walking /\ walkPos <= Len(CurWalk.calls)
    /\ kind[CurWalk.calls[walkPos]] = "bad"
    /\ walkErrs' = walkErrs \cup {Args[argIdx]}
    /\ argIdx' = Len(Args) + 1
    /\ walkPos' = 1
    /\ UNCHANGED <<kind, mainPc, wg, closerPc, urlChanClosed, closes, workerPool,
                   taskVars, printed, harnessVars>>

\* the callback is called with err # nil and returns it: the walk of this
\* input path ends and main reports it
WalkFnErr ==
    /\ Walking /\ walkPos <= Len(CurWalk.calls)
    /\ kind[CurWalk.calls[walkPos]] = "bad"
    /\ walkErrs' = walkErrs \cup {Args[argIdx]}
    /\ argIdx' = argIdx + 1
    /\ walkPos' = 1
    /\ UNCHANGED <<kind, mainPc, wg, closerPc, urlChanClosed, closes, workerPool,
                   taskVars, printed, harnessVars>>

WalkFnDirLaunch ==
    /\ Walking /\ walkPos <= Len(CurWalk.calls)
    /\ LET e == CurWalk.calls[walkPos]
       IN  /\ kind[e] = "dir"
           /\ wg' = wg + 1
           /\ pc' = [pc EXCEPT ![e] = "open"]
    /\ walkPos' = walkPos + 1
    /\ UNCHANGED <<kind, mainPc, argIdx, walkErrs, closerPc, urlChanClosed, closes,
                   workerPool, content, lineNo, parts, partNo, tokens, fileOpen, ioErr,
                   printed, harnessVars>>
    /\ launches' = [launches EXCEPT ![CurWalk.calls[walkPos]] = @ + 1]
    /\ UNCHANGED <<opens, acquires>>

\* the callback is called for a directory: nothing to do
WalkFnDir ==
    /\ Walking /\ walkPos <= Len(CurWalk.calls)
    /\ kind[CurWalk.calls[walkPos]] = "dir"
    /\ walkPos' = walkPos + 1
    /\ UNCHANGED <<kind, mainPc, argIdx, walkErrs, wg, closerPc, urlChanClosed,
                   closes, workerPool, taskVars, printed, harnessVars>>

\* WalkFnFile made to wait for a free slot of workerPool
WalkFnFileGated ==
    /\ Walking /\ walkPos <= Len(CurWalk.calls)
    /\ workerPool < WorkerPoolCap
    /\ LET e == CurWalk.calls[walkPos]
       IN  /\ kind[e] = "file"
           /\ wg' = wg + 1
           /\ pc' = [pc EXCEPT ![e] = "open"]
    /\ walkPos' = walkPos + 1
    /\ UNCHANGED <<kind, mainPc, argIdx, walkErrs, closerPc, urlChanClosed, closes,
                   workerPool, content, lineNo, parts, partNo, tokens, fileOpen, ioErr,
                   printed, harnessVars>>
    /\ launches' = [launches EXCEPT ![CurWalk.calls[walkPos]] = @ + 1]
    /\ UNCHANGED <<opens, acquires>>

\* the callback is called for a non-directory: wg.Add(1); go extractURLs
WalkFnFile ==
    /\ Walking /\ walkPos <= Len(CurWalk.calls)
    /\ LET e == CurWalk.calls[walkPos]
       IN  /\ kind[e] = "file"
           /\ wg' = wg + 1
           /\ pc' = [pc EXCEPT ![e] = "open"]
    /\ walkPos' = walkPos + 1
    /\ UNCHANGED <<kind, mainPc, argIdx, walkErrs, closerPc, urlChanClosed, closes,
                   workerPool, content, lineNo, parts, partNo, tokens, fileOpen, ioErr,
                   printed, harnessVars>>
    /\ launches' = [launches EXCEPT ![CurWalk.calls[walkPos]] = @ + 1]
    /\ UNCHANGED <<opens, acquires>>

\* filepath.Walk returns nil: next input path
WalkReturn ==
    /\ Walking /\ walkPos > Len(CurWalk.calls)
    /\ argIdx' = argIdx + 1
    /\ walkPos' = 1
    /\ UNCHANGED <<kind, mainPc, walkErrs, wg, closerPc, urlChanClosed, closes,
                   workerPool, taskVars, printed, harnessVars>>

\* after the loop: start the closer goroutine and enter the range loop
MainStartConsumer ==
    /\ mainPc = "walk" /\ argIdx > Len(Args)
    /\ closerPc' = "wait"
    /\ mainPc' = "range"
    /\ UNCHANGED <<kind, argIdx, walkPos, walkErrs, wg, urlChanClosed, closes,
                   workerPool, taskVars, printed, harnessVars>>

\* the range loop ends when urlChan is closed (nothing is buffered)
ConsumerExit ==
    /\ mainPc = "range" /\ urlChanClosed
    /\ mainPc' = "done"
    /\ UNCHANGED <<kind, argIdx, walkPos, walkErrs, wg, closerPc, urlChanClosed,
                   closes, workerPool, taskVars, printed, harnessVars>>

\* ---- the closer goroutine ------------------------------------------------

CloserWaitAlways ==
    /\ closerPc = "wait"
    /\ closerPc' = "close"
    /\ UNCHANGED <<kind, mainPc, argIdx, walkPos, walkErrs, wg, urlChanClosed,
                   closes, workerPool, taskVars, printed, harnessVars>>

\* wg.Wait() returns when the counter is zero
CloserWait ==
    /\ closerPc = "wait" /\ wg = 0
    /\ closerPc' = "close"
    /\ UNCHANGED <<kind, mainPc, argIdx, walkPos, walkErrs, wg, urlChanClosed,
                   closes, workerPool, taskVars, printed, harnessVars>>

CloserClose ==
    /\ closerPc = "close"
    /\ urlChanClosed' = TRUE
    /\ closes' = closes + 1
    /\ closerPc' = "done"
    /\ UNCHANGED <<kind, mainPc, argIdx, walkPos, walkErrs, wg, workerPool,
                   taskVars, printed, harnessVars>>

\* ---- extractURLs(e) ------------------------------------------------------

mainVars == <<kind, mainPc, argIdx, walkPos, walkErrs, closerPc, urlChanClosed, closes>>

IsSmall(e) == Len(content[e]) < maxMemoryFileSize
\* the piece under validation, trimmed
Cand(e) == TrimSpace(parts[e][partNo[e]])

\* os.Open
OpenFile(e) ==
    /\ pc[e] = "open"
    /\ \/ /\ fileOpen' = [fileOpen EXCEPT ![e] = TRUE]
          /\ opens' = [opens EXCEPT ![e] = @ + 1]
          /\ pc' = [pc EXCEPT ![e] = "stat"]
          /\ UNCHANGED ioErr
       \/ /\ ioErr' = [ioErr EXCEPT ![e] = "open"]
          /\ pc' = [pc EXCEPT ![e] = "ret"]
          /\ UNCHANGED <<fileOpen, opens>>
    /\ UNCHANGED <<mainVars, wg, workerPool, content, lineNo, parts, partNo, tokens,
                   printed, harnessVars>>
    /\ UNCHANGED <<launches, acquires>>

\* file.Stat and the size comparison
StatFile(e) ==
    /\ pc[e] = "stat"
    /\ \/ \E c \in FileContents :
             /\ content' = [content EXCEPT ![e] = c]
             /\ pc' = [pc EXCEPT ![e] =
                         IF Len(c) < maxMemoryFileSize THEN "acqS" ELSE "scan"]
             /\ UNCHANGED ioErr
       \/ /\ ioErr' = [ioErr EXCEPT ![e] = "stat"]
          /\ pc' = [pc EXCEPT ![e] = "ret"]
          /\ UNCHANGED content
    /\ UNCHANGED <<mainVars, wg, workerPool, lineNo, parts, partNo, tokens, fileOpen,
                   printed, harnessVars>>
    /\ UNCHANGED countVars

AcquireSmallUnbounded(e) ==
    /\ pc[e] = "acqS"
    /\ workerPool' = workerPool + 1
    /\ tokens' = [tokens EXCEPT ![e] = @ + 1]
    /\ pc' = [pc EXCEPT ![e] = "readS"]
    /\ UNCHANGED <<mainVars, wg, content, lineNo, parts, partNo, fileOpen, ioErr,
                   printed, harnessVars>>
    /\ acquires' = [acquires EXCEPT ![e] = @ + 1]
    /\ UNCHANGED <<launches, opens>>

\* small-file path: workerPool <- struct{}{}
AcquireSmall(e) ==
    /\ pc[e] = "acqS"
    /\ workerPool < WorkerPoolCap
    /\ workerPool' = workerPool + 1
    /\ tokens' = [tokens EXCEPT ![e] = @ + 1]
    /\ pc' = [pc EXCEPT ![e] = "readS"]
    /\ UNCHANGED <<mainVars, wg, content, lineNo, parts, partNo, fileOpen, ioErr,
                   printed, harnessVars>>
    /\ acquires' = [acquires EXCEPT ![e] = @ + 1]
    /\ UNCHANGED <<launches, opens>>

\* ReadFile handing the pieces over last piece first
ReadFileReversed(e) ==
    /\ pc[e] = "readS"
    /\ \/ /\ parts' = [parts EXCEPT ![e] =
                       [i \in 1..Len(Split(content[e])) |->
                           Split(content[e])[Len(Split(content[e])) + 1 - i]]]
          /\ opens' = [opens EXCEPT ![e] = @ + 1]
          /\ partNo' = [partNo EXCEPT ![e] = 1]
          /\ pc' = [pc EXCEPT ![e] = "part"]
          /\ UNCHANGED ioErr
       \/ /\ ioErr' = [ioErr EXCEPT ![e] = "read"]
          /\ pc' = [pc EXCEPT ![e] = "ret"]
          /\ UNCHANGED <<parts, partNo, opens>>
    /\ UNCHANGED <<mainVars, wg, workerPool, content, lineNo, tokens, fileOpen,
                   printed, harnessVars>>
    /\ UNCHANGED <<launches, acquires>>

\* small-file path: os.ReadFile(filePath) opens the file by its name again,
\* reads it and closes that handle; on error the function returns at once
ReadFile(e) ==
    /\ pc[e] = "readS"
    /\ \/ /\ parts' = [parts EXCEPT ![e] = Split(content[e])]
          /\ opens' = [opens EXCEPT ![e] = @ + 1]
          /\ partNo' = [partNo EXCEPT ![e] = 1]
          /\ pc' = [pc EXCEPT ![e] = "part"]
          /\ UNCHANGED ioErr
       \/ /\ ioErr' = [ioErr EXCEPT ![e] = "read"]
          /\ pc' = [pc EXCEPT ![e] = "ret"]
          /\ UNCHANGED <<parts, partNo, opens>>
    /\ UNCHANGED <<mainVars, wg, workerPool, content, lineNo, tokens, fileOpen,
                   printed, harnessVars>>
    /\ UNCHANGED <<launches, acquires>>

\* large-file path: scanner.Scan() delivers a line, or ends the loop at the
\* end of the file or on a read error (scanner.Err() # nil, reported)
Scan(e) ==
    /\ pc[e] = "scan"
    /\ \/ /\ lineNo[e] < Len(ScanLines(content[e]))
          /\ lineNo' = [lineNo EXCEPT ![e] = @ + 1]
          /\ pc' = [pc EXCEPT ![e] = "acqL"]
          /\ UNCHANGED ioErr
       \/ /\ lineNo[e] = Len(ScanLines(content[e]))
          /\ pc' = [pc EXCEPT ![e] = "ret"]
          /\ UNCHANGED <<lineNo, ioErr>>
       \/ /\ ioErr' = [ioErr EXCEPT ![e] = "scan"]
          /\ pc' = [pc EXCEPT ![e] = "ret"]
          /\ UNCHANGED lineNo
    /\ UNCHANGED <<mainVars, wg, workerPool, content, parts, partNo, tokens, fileOpen,
                   printed, harnessVars>>
    /\ UNCHANGED countVars

\* large-file path: workerPool <- struct{}{}, once per line, then the line
\* is split
AcquireLine(e) ==
    /\ pc[e] = "acqL"
    /\ workerPool < WorkerPoolCap
    /\ workerPool' = workerPool + 1
    /\ tokens' = [tokens EXCEPT ![e] = @ + 1]
    /\ parts' = [parts EXCEPT ![e] = Split(ScanLines(content[e])[lineNo[e]])]
    /\ partNo' = [partNo EXCEPT ![e] = 1]
    /\ pc' = [pc EXCEPT ![e] = "part"]
    /\ UNCHANGED <<mainVars, wg, content, lineNo, fileOpen, ioErr, printed,
                   harnessVars>>
    /\ acquires' = [acquires EXCEPT ![e] = @ + 1]
    /\ UNCHANGED <<launches, opens>>

\* isValidURL(piece) is called
BeginValidate(e) ==
    /\ pc[e] = "part"
    /\ partNo[e] <= Len(parts[e])
    /\ pc' = [pc EXCEPT ![e] = "val"]
    /\ UNCHANGED <<mainVars, wg, workerPool, content, lineNo, parts, partNo, tokens,
                   fileOpen, ioErr, printed, harnessVars>>
    /\ UNCHANGED countVars

\* isValidURL(piece) returns
EndValidate(e) ==
    /\ pc[e] = "val"
    /\ IF isValidURL(Cand(e))
       THEN /\ pc' = [pc EXCEPT ![e] = "send"]
            /\ UNCHANGED partNo
       ELSE /\ pc' = [pc EXCEPT ![e] = "part"]
            /\ partNo' = [partNo EXCEPT ![e] = @ + 1]
    /\ UNCHANGED <<mainVars, wg, workerPool, content, lineNo, parts, tokens,
                   fileOpen, ioErr, printed, harnessVars>>
    /\ UNCHANGED countVars

SendRecvUntrimmed(e) ==
    /\ pc[e] = "send"
    /\ mainPc = "range" /\ ~urlChanClosed
    /\ printed' = [printed EXCEPT ![e] = Append(@, parts[e][partNo[e]])]
    /\ partNo' = [partNo EXCEPT ![e] = @ + 1]
    /\ pc' = [pc EXCEPT ![e] = "part"]
    /\ UNCHANGED <<mainVars, wg, workerPool, content, lineNo, parts, tokens,
                   fileOpen, ioErr, harnessVars>>
    /\ UNCHANGED countVars

\* urlChan <- piece meets the receive of the range loop, which prints it
SendRecv(e) ==
    /\ pc[e] = "send"
    /\ mainPc = "range" /\ ~urlChanClosed
    /\ printed' = [printed EXCEPT ![e] = Append(@, Cand(e))]
    /\ partNo' = [partNo EXCEPT ![e] = @ + 1]
    /\ pc' = [pc EXCEPT ![e] = "part"]
    /\ UNCHANGED <<mainVars, wg, workerPool, content, lineNo, parts, tokens,
                   fileOpen, ioErr, harnessVars>>
    /\ UNCHANGED countVars

\* Release taken after the first piece instead of the last
ReleaseEarly(e) ==
    /\ pc[e] = "part"
    /\ partNo[e] > 1
    /\ workerPool > 0
    /\ workerPool' = workerPool - 1
    /\ tokens' = [tokens EXCEPT ![e] = @ - 1]
    /\ pc' = [pc EXCEPT ![e] = IF IsSmall(e) THEN "ret" ELSE "scan"]
    /\ UNCHANGED <<mainVars, wg, content, lineNo, parts, partNo, fileOpen, ioErr,
                   printed, harnessVars>>
    /\ UNCHANGED countVars

\* <-workerPool after the last piece of the file (small) or line (large)
Release(e) ==
    /\ pc[e] = "part"
    /\ partNo[e] > Len(parts[e])
    /\ workerPool > 0
    /\ workerPool' = workerPool - 1
    /\ tokens' = [tokens EXCEPT ![e] = @ - 1]
    /\ pc' = [pc EXCEPT ![e] = IF IsSmall(e) THEN "ret" ELSE "scan"]
    /\ UNCHANGED <<mainVars, wg, content, lineNo, parts, partNo, fileOpen, ioErr,
                   printed, harnessVars>>
    /\ UNCHANGED countVars

\* Return without the deferred wg.Done()
ReturnNoDone(e) ==
    /\ pc[e] = "ret"
    /\ fileOpen' = [fileOpen EXCEPT ![e] = FALSE]
    /\ wg' = wg
    /\ pc' = [pc EXCEPT ![e] = "done"]
    /\ UNCHANGED <<mainVars, workerPool, content, lineNo, parts, partNo, tokens, ioErr,
                   printed, harnessVars>>
    /\ UNCHANGED countVars

\* return: the deferred file.Close() (if the file was opened) and wg.Done()
Return(e) ==
    /\ pc[e] = "ret"
    /\ fileOpen' = [fileOpen EXCEPT ![e] = FALSE]
    /\ wg' = wg - 1
    /\ pc' = [pc EXCEPT ![e] = "done"]
    /\ UNCHANGED <<mainVars, workerPool, content, lineNo, parts, partNo, tokens, ioErr,
                   printed, harnessVars>>
    /\ UNCHANGED countVars

TaskStep(e) ==
    \/ OpenFile(e) \/ StatFile(e) \/ AcquireSmall(e) \/ ReadFile(e)
    \/ Scan(e) \/ AcquireLine(e) \/ BeginValidate(e) \/ EndValidate(e)
    \/ SendRecv(e) \/ Release(e) \/ Return(e)

MainStep ==
    \/ WalkFnErr \/ WalkFnDir \/ WalkFnFile \/ WalkReturn
    \/ MainStartConsumer \/ ConsumerExit

CloserStep == CloserWait \/ CloserClose

Next == MainStep \/ CloserStep \/ \E e \in Entries : TaskStep(e)

Spec == Init /\ [][Next]_vars

\* goroutines that can run are eventually scheduled, and every call of
\* isValidURL returns (the client has a timeout); the behaviours checked
\* for liveness are those of the file systems in which "Ay" is not a file
\* (at most two Extractors)
FairInit == Init /\ kind["Ay"] # "file"
FairSpec ==
    /\ FairInit /\ [][Next]_vars
    /\ WF_vars(MainStep)
    /\ WF_vars(CloserStep)
    /\ \A e \in Entries : WF_vars(TaskStep(e))

\* ---- state predicates used by the properties -----------------------------

Launched == {e \in Entries : pc[e] # "idle"}
Returned == {e \in Entries : pc[e] = "done"}
WalkDone == mainPc # "walk" \/ argIdx > Len(Args)
InFlight == {e \in Entries : pc[e] = "val"}
RunComplete == mainPc = "done"
\* no goroutine can take a step
Quiescent == ~ENABLED Next

\* the file system, described without the walk: e is reached when every
\* directory above it can be read, and the walk of an input path visits
\* its entries in the order root, then children in lexical order
WalkOrder == <<"A", "Ax", "Ay", "B">>
PosOf(e) == CHOOSE i \in 1..Len(WalkOrder) : WalkOrder[i] = e
RootOf(e) == IF e \in {"A", "Ax", "Ay"} THEN "A" ELSE "B"
Ancestors(e) == IF e \in {"Ax", "Ay"} THEN {"A"} ELSE {}
Reachable(e) == \A a \in Ancestors(e) : kind[a] = "dir"
ReachableFile(e) == kind[e] = "file" /\ Reachable(e)
ErrorBefore(e) ==
    \E b \in Entries :
        /\ RootOf(b) = RootOf(e) /\ PosOf(b) < PosOf(e)
        /\ kind[b] = "bad" /\ Reachable(b)
DiscoveredFile(e) == ReachableFile(e) /\ ~ErrorBefore(e)

BagOfSeq(s) == [x \in Range(s) |-> Cardinality({i \in DOMAIN s : s[i] = x})]
RECURSIVE BagSum(_, _)
BagSum(f, S) ==
    IF S = {} THEN EmptyBag
    ELSE LET e == CHOOSE x \in S : TRUE IN f[e] (+) BagSum(f, S \ {e})

\* the accepted candidates among those e read from its file: none when
\* open, stat or ReadFile failed, those of the lines delivered before a
\* scanner error, all of them otherwise
AcceptedOf(e) ==
    IF e \notin Launched \/ ioErr[e] \in {"open", "stat", "read"} THEN <<>>
    ELSE IF IsSmall(e) THEN SelectSeq(SeqMap(TrimSpace, Split(content[e])), isValidURL)
    ELSE SelectSeq(
            Flatten(SeqMap(LineCandidates,
                           SubSeq(ScanLines(content[e]), 1, lineNo[e]))),
            isValidURL)

-----------------------------------------------------------------------------
\* C1: at most WorkerPoolCap calls of isValidURL execute at the same time,
\* whatever the number of Extractors and the paths they take.
C1_ValidatorCallsBounded == Cardinality(InFlight) <= WorkerPoolCap

\* the gate is full of validating Extractors while another one waits for it
C1_Witness ==
    /\ Cardinality(InFlight) = WorkerPoolCap
    /\ \E e \in Entries : pc[e] \in {"acqS", "acqL"}
    /\ \E e \in InFlight : IsSmall(e)
    /\ \E e \in InFlight : ~IsSmall(e)

\* C2: urlChan is closed only when the traversal is over and every
\* launched Extractor has returned (so none is sending), it is closed at
\* most once and stays closed, and once all Extractors of the run have
\* returned it is eventually closed.
C2_SinkClosedIffAllReturned ==
    /\ [](urlChanClosed => (WalkDone /\ Launched = Returned))
    /\ [](closes <= 1 /\ (urlChanClosed <=> closes = 1))
    /\ [][urlChanClosed => urlChanClosed']_vars
    /\ (WalkDone /\ Launched = Returned) ~> urlChanClosed

\* urlChan is closed after two Extractors returned, one having sent
C2_Witness ==
    /\ urlChanClosed
    /\ Cardinality(Returned) = 2
    /\ \E e \in Entries : printed[e] # <<>>

\* C3: every run terminates: a state in which no goroutine can step is
\* the end of main with the Sink closed and every Extractor returned.
C3_RunTerminates ==
    Quiescent => (RunComplete /\ urlChanClosed /\ Launched = Returned)

\* C5: only accepted candidates are printed, and when the run completes
\* the multiset of printed strings is the multiset of the trimmed
\* candidates the Extractors read that isValidURL accepts.
C5_PrintedIsAcceptedMultiset ==
    /\ \A e \in Entries : \A i \in DOMAIN printed[e] : isValidURL(printed[e][i])
    /\ RunComplete =>
          BagSum([e \in Entries |-> BagOfSeq(printed[e])], Entries)
            = BagSum([e \in Entries |-> BagOfSeq(AcceptedOf(e))], Entries)

\* a completed run printed a URL twice for one file, skipped a rejected
\* candidate, and printed the padded URL of another file trimmed
C5_Witness ==
    /\ RunComplete
    /\ \E e \in Entries :
          /\ content[e] = <<"o", ",", "o", "\n", "s">>
          /\ printed[e] = << <<"o">>, <<"o">> >>
    /\ \E e \in Entries :
          /\ content[e] = <<" ", "o", " ">> /\ pc[e] = "done"
          /\ printed[e] = << <<"o">> >>
    /\ \E e \in Entries :
          /\ content[e] = <<"o", ",", "i">> /\ pc[e] = "done"
          /\ printed[e] = << <<"o">> >>

\* C6: an I/O failure in one Extractor ends only that Extractor: when
\* nothing can step any more, every launched Extractor has returned, and
\* those without a failure have emitted all their accepted candidates.
C6_FailureIsolated ==
    (Quiescent /\ \E f \in Entries : ioErr[f] # None) =>
        \A e \in Launched :
            /\ pc[e] = "done"
            /\ ioErr[e] = None => printed[e] = AcceptedOf(e)

\* C7 as stated: after the traversal every file reachable without error
\* has an Extractor, whatever errors its siblings met.
C7_EveryReachableFileLaunched ==
    WalkDone => \A e \in Entries : ReachableFile(e) => e \in Launched

\* C7 amended: an error ends the walk of its own input path only: the
\* Extractors launched are exactly those of the files that no error
\* precedes in the walk of their input path, and the input paths reported
\* are exactly those containing a reachable error.
C7_ErrorEndsOnlyItsInputPath ==
    /\ Launched \subseteq {e \in Entries : DiscoveredFile(e)}
    /\ WalkDone =>
          /\ Launched = {e \in Entries : DiscoveredFile(e)}
          /\ walkErrs = {RootOf(b) : b \in {x \in Entries : kind[x] = "bad" /\ Reachable(x)}}

\* the walk of "A" ended on an error after one file; "B" got its Extractor
C7_Witness ==
    /\ WalkDone
    /\ kind["Ax"] = "file" /\ kind["Ay"] = "bad" /\ kind["B"] = "file"
    /\ "A" \in walkErrs
    /\ {"Ax", "B"} \subseteq Launched

\* C8: the Extractor of a zero-byte file never calls isValidURL and
\* prints nothing.
C8_ZeroByteNoValidatorCall ==
    \A e \in Entries :
        (pc[e] \notin {"idle", "open", "stat"} /\ ioErr[e] # "stat" /\ content[e] = <<>>)
            => (pc[e] # "val" /\ printed[e] = <<>>)

\* C9: when the traversal discovers no non-directory file, no Extractor
\* is ever launched, nothing is printed, and the run ends with the Sink
\* closed.
NoFileDiscovered == \A e \in Entries : ~DiscoveredFile(e)
C9_NoFilesStillTerminates ==
    /\ [](NoFileDiscovered => (Launched = {} /\ \A e \in Entries : printed[e] = <<>>))
    /\ NoFileDiscovered ~> (RunComplete /\ urlChanClosed /\ closes = 1)

\* a directory holding only subdirectories: the run ended, nothing launched
C9_Witness ==
    /\ kind["A"] = "dir" /\ kind["Ax"] = "dir" /\ kind["Ay"] = "dir"
    /\ kind["B"] = "dir"
    /\ RunComplete /\ urlChanClosed
    /\ Launched = {}

\* C11: no Extractor holds a gate token while it opens, stats or reads
\* its file.
C11_NoTokenAcrossFileIO ==
    \A e \in Entries : pc[e] \in {"open", "stat", "readS", "scan"} => tokens[e] = 0

\* C12: every token an Extractor acquired is released before it returns:
\* a returning or returned Extractor holds none, and the tokens in
\* workerPool are those of the Extractors inside an acquire..release
\* section.
InSection(e) == pc[e] \in {"readS", "part", "val", "send"}
C12_TokensReleasedOnReturn ==
    /\ \A e \in Entries : pc[e] \in {"ret", "done"} => tokens[e] = 0
    /\ workerPool = Cardinality({e \in Entries : InSection(e)})

\* C13: in the large-file path at most one isValidURL call is made between
\* an acquire and the matching release (partNo restarts at 1 on acquire).
C13_OneCallPerAcquire ==
    \A e \in Entries : (pc[e] = "val" /\ ~IsSmall(e)) => partNo[e] = 1

\* C14: no Extractor ever holds more than one token; in the small-file
\* path the token is acquired once, held while the pieces are validated
\* and sent, released only after the last piece and, once the pieces have
\* all been validated, released exactly once.
PastStat(e) == pc[e] \notin {"idle", "open", "stat"} /\ ioErr[e] \notin {"open", "stat"}
C15_ConsumerLiveBeforeSend ==
    \A e \in Entries : pc[e] = "send" => mainPc = "range"

\* C16 as stated: once an Extractor has been launched the counter is zero
\* only when the traversal is over (the moment the Sink can be closed).
C16_ZeroOnlyAtClose ==
    (wg = 0 /\ Launched # {}) => WalkDone

\* C16 amended: the counter is the number of launched Extractors that
\* have not returned; the closer passes wg.Wait, and the Sink is closed,
\* only with the counter at zero after the traversal.
C16_CounterTracksOutstanding ==
    /\ wg = Cardinality(Launched \ Returned)
    /\ wg >= 0
    /\ closerPc \in {"close", "done"} => (wg = 0 /\ WalkDone)
    /\ urlChanClosed => wg = 0

\* the counter is back at zero while the traversal still has a file to
\* register
C16_Witness ==
    /\ wg = 0 /\ Launched # {} /\ ~WalkDone
    /\ kind["B"] = "file" /\ pc["B"] = "idle"

\* C17: the traversal can always take its next step, whatever the gate and
\* the Sink hold, and it launches exactly one Extractor per discovered
\* non-directory file and none for anything else.
C17_FanOutNeverBlocks ==
    /\ Walking => ENABLED MainStep
    /\ \A e \in Entries : launches[e] <= 1
    /\ WalkDone =>
          \A e \in Entries : launches[e] = IF DiscoveredFile(e) THEN 1 ELSE 0

\* "B" was launched while every token was held by an Extractor blocked on
\* its send to the Sink
C17_Witness ==
    /\ mainPc = "walk"
    /\ workerPool = WorkerPoolCap
    /\ pc["Ax"] = "send" /\ pc["Ay"] = "send"
    /\ tokens["Ax"] = 1 /\ tokens["Ay"] = 1
    /\ launches["B"] = 1

\* C18: each file is opened once, by one Extractor, and no handle is open
\* once that Extractor has returned.
C18_OpenedOnceClosedOnReturn ==
    \A e \in Entries :
        /\ launches[e] <= 1
        /\ opens[e] <= 1
        /\ pc[e] = "done" => ~fileOpen[e]

\* C19: what is printed for a file is, in order, a subsequence of the
\* candidates of that file.
RECURSIVE IsSubsequence(_, _)
IsSubsequence(a, b) ==
    IF a = <<>> THEN TRUE
    ELSE IF b = <<>> THEN FALSE
    ELSE IF Head(a) = Head(b) THEN IsSubsequence(Tail(a), Tail(b))
    ELSE IsSubsequence(a, Tail(b))
CandidatesOf(e) ==
    IF IsSmall(e) THEN SmallCandidates(content[e]) ELSE LargeCandidates(content[e])
C19_PerFileOrderKept ==
    \A e \in Entries : IsSubsequence(printed[e], CandidatesOf(e))

\* two different URLs of one file were printed in the order of the file
\* while another Extractor, which has printed too, is still running
C19_Witness ==
    \E e, f \in Entries :
        /\ e # f
        /\ content[e] = <<"u", ",", "o">>
        /\ printed[e] = << <<"u">>, <<"o">> >>
        /\ printed[f] # <<>> /\ pc[f] \notin {"ret", "done"}

-----------------------------------------------------------------------------
\* C10: isValidURL returns true exactly when the probe had no transport
\* error, the Content-Type does not start with "image/", and the status
\* code s satisfies 200 <= s < 400.
C10_ValidatorIff ==
    verdict # NotRun =>
        (verdict[1] <=>
            /\ ~probe.err
            /\ ~(/\ Len(probe.contentType) >= 6
                 /\ SubSeq(probe.contentType, 1, 6) = ImagePrefix)
            /\ probe.statusCode \in 200..399)

\* an image response with a 2xx status has been judged
C10_Witness ==
    /\ verdict = <<FALSE>>
    /\ ~probe.err
    /\ probe.contentType = ImagePng
    /\ probe.statusCode = 200

\* C4: both read paths emit the same set of URLs for the same content.
C4_PathsEmitSameSet ==
    (xSmall # NotRun /\ xLarge # NotRun) => Range(xSmall[1]) = Range(xLarge[1])

====
